---- MODULE Spec2Model ----
(***************************************************************************)
(* Model of the AI pathfinding core of "Game Creator" (app.py):            *)
(*   find_path    breadth-first search on a 0/1 grid (lines 20-50)         *)
(*   get_ai_move  the /api/ai-move handler (lines 59-112)                  *)
(* Cells are <<row, col>> with 0-based components, as in the Python code;  *)
(* a grid is a sequence of rows, each a sequence of 0 (open) / 1 (wall).   *)
(* Python's None is modelled by the empty sequence <<>>: find_path never   *)
(* returns an empty list, and a position is None or a 2-tuple.             *)
(***************************************************************************)
EXTENDS Integers, Sequences, FiniteSets, TLC

VARIABLES
    pc,          \* position of the running call
    grid,        \* the 2D list 'grid'
    start,       \* find_path argument 'start'
    end,         \* find_path argument 'end'
    frame,       \* find_path locals: queue, seen, path, k (index in the for loop), result
    enqueued,    \* history: every path ever placed in the queue, in order
    popped,      \* history: every path taken by queue.popleft(), in order
    state,       \* get_ai_move: the request JSON (width, height, grid_size)
    n,           \* get_ai_move: number of objects of state['objects'] already iterated
    player_pos,  \* get_ai_move local
    ai_pos,      \* get_ai_move local
    ai_obj,      \* history: the pixel position <<x, y>> of the object that set ai_pos
    absent,      \* history: grid, player_pos, ai_pos of the same request without its out-of-grid objects
    outside,     \* history: some iterated object's cell lies outside [0,rows) x [0,cols)
    path,        \* get_ai_move local: the result of find_path
    response     \* the JSON body and HTTP status returned

vars == <<pc, grid, start, end, frame, enqueued, popped, state, n,
          player_pos, ai_pos, ai_obj, absent, outside, path, response>>

----------------------------------------------------------------------------
(* Bounds of the model *)

\* find_path is explored on every 0/1 grid of at most MaxCells cells
MaxCells == 7
\* get_ai_move: largest width, height, grid_size and pixel coordinate, longest object list
MaxWidth == 3
MaxHeight == 2
MaxTile == 2
MaxObjects == 2

None == <<>>

Max(a, b) == IF a >= b THEN a ELSE b

Last(s) == s[Len(s)]

----------------------------------------------------------------------------
(* find_path, lines 20-50 *)

\* a loop whose first step is diagonal
DiagonalDirections == << <<1, 1>>, <<0, -1>>, <<1, 0>>, <<-1, 0>> >>

\* a loop that tries the row steps before the column steps
RowFirstDirections == << <<1, 0>>, <<-1, 0>>, <<0, 1>>, <<0, -1>> >>

\* line 36: the (dr, dc) pairs of the for loop, in iteration order
DIRECTIONS == << <<0, 1>>, <<0, -1>>, <<1, 0>>, <<-1, 0>> >>

\* a seen set that forgets start
EmptySeen(s) == {}

\* line 27: seen = {start}
InitialSeen(s) == {s}

\* queue.pop(): the newest path instead of the oldest
PopRight(queue) == [path |-> Last(queue), queue |-> SubSeq(queue, 1, Len(queue) - 1)]

\* line 33: path = queue.popleft()
PopLeft(queue) == [path |-> Head(queue), queue |-> Tail(queue)]

\* the condition of lines 39-40 without its test grid[nr][nc] == 0
CanVisitThroughWalls(g, nr, nc, seen) ==
    /\ 0 <= nr /\ nr < Len(g)
    /\ 0 <= nc /\ nc < Len(g[1])
    /\ <<nr, nc>> \notin seen

\* lines 39-40: the condition under which the neighbour (nr, nc) is taken
\* (Python's 'and' evaluates left to right and stops at the first false operand,
\*  so grid[0] is never read on a grid without rows)
CanVisit(g, nr, nc, seen) ==
    /\ 0 <= nr /\ nr < Len(g)
    /\ 0 <= nc /\ nc < Len(g[1])
    /\ g[nr + 1][nc + 1] = 0
    /\ <<nr, nc>> \notin seen

\* lines 26-30: the frame after the code before the while loop
FPEnter(s, e) ==
    [queue  |-> << <<s>> >>,
     seen   |-> InitialSeen(s),
     path   |-> None,
     k      |-> 0,
     result |-> IF s = e THEN <<s>> ELSE None,
     pc     |-> IF s = e THEN "return" ELSE "while"]

\* lines 32-34 and 50: the while test, then popleft or the final return None
FPWhile(f) ==
    IF f.queue # <<>>
    THEN LET p == PopLeft(f.queue)
         IN [f EXCEPT !.queue = p.queue, !.path = p.path, !.k = 1, !.pc = "for"]
    ELSE [f EXCEPT !.result = None, !.pc = "return"]

\* lines 36-49: one iteration of the for loop, for DIRECTIONS[f.k]
FPFor(g, e, f) ==
    LET r  == Last(f.path)[1]
        c  == Last(f.path)[2]
        nr == r + DIRECTIONS[f.k][1]
        nc == c + DIRECTIONS[f.k][2]
        new_path == Append(f.path, <<nr, nc>>)
        next == IF f.k = Len(DIRECTIONS) THEN "while" ELSE "for"
    IN  IF CanVisit(g, nr, nc, f.seen)
        THEN IF <<nr, nc>> = e
             THEN [f EXCEPT !.seen = f.seen \cup {<<nr, nc>>},
                            !.result = new_path, !.pc = "return"]
             ELSE [f EXCEPT !.seen = f.seen \cup {<<nr, nc>>},
                            !.queue = Append(f.queue, new_path),
                            !.k = f.k + 1, !.pc = next]
        ELSE [f EXCEPT !.k = f.k + 1, !.pc = next]

\* the whole call, as get_ai_move uses it at line 92
RECURSIVE FPRun(_, _, _)
FPRun(g, e, f) ==
    IF f.pc = "return" THEN f.result
    ELSE IF f.pc = "while" THEN FPRun(g, e, FPWhile(f))
    ELSE FPRun(g, e, FPFor(g, e, f))

find_path(g, s, e) == FPRun(g, e, FPEnter(s, e))

NoFrame == [queue |-> <<>>, seen |-> {}, path |-> None, k |-> 0, result |-> None, pc |-> "none"]

----------------------------------------------------------------------------
(* The grids, starts and ends on which find_path is explored *)

GridsOf(rows, cols) == [1..rows -> [1..cols -> {0, 1}]]

CellsOf(g) == {<<r, c>> : r \in 0..(Len(g) - 1), c \in 0..(Len(g[1]) - 1)}

\* the 3x3 open grid of the scenario "start=(0,0), end=(2,2)"
OpenGrid3 == [i \in 1..3 |-> [j \in 1..3 |-> 0]]

\* the centre of a 3x3 grid enclosed by a ring of walls
RingGrid3 == [i \in 1..3 |-> [j \in 1..3 |-> IF (i = 2) # (j = 2) THEN 1 ELSE 0]]

Dims == {d \in (1..MaxCells) \X (1..MaxCells) : d[1] * d[2] <= MaxCells}

PathGrids == UNION {GridsOf(d[1], d[2]) : d \in Dims} \cup {OpenGrid3, RingGrid3}

UnusedRequest == [width |-> 0, height |-> 0, grid_size |-> 0]

NoAbsent == [grid |-> <<>>, player_pos |-> None, ai_pos |-> None]

\* no response has been returned yet
NoResponse == [status |-> "pending"]

InitPath ==
    /\ grid \in PathGrids
    /\ start \in CellsOf(grid)
    /\ end \in CellsOf(grid)
    /\ pc = "find_path"
    /\ frame = NoFrame
    /\ enqueued = <<>>
    /\ popped = <<>>
    /\ state = UnusedRequest
    /\ n = 0
    /\ player_pos = None
    /\ ai_pos = None
    /\ ai_obj = None
    /\ absent = NoAbsent
    /\ outside = FALSE
    /\ path = None
    /\ response = NoResponse

RequestVars == <<state, n, player_pos, ai_pos, ai_obj, absent, outside, path, response>>

\* lines 26-30
Enter ==
    /\ pc = "find_path"
    /\ frame' = FPEnter(start, end)
    /\ enqueued' = << <<start>> >>
    /\ pc' = "searching"
    /\ UNCHANGED <<grid, start, end, popped, RequestVars>>

\* lines 32-34
PopPath ==
    /\ pc = "searching"
    /\ frame.pc = "while"
    /\ frame.queue # <<>>
    /\ frame' = FPWhile(frame)
    /\ popped' = Append(popped, frame'.path)
    /\ UNCHANGED <<pc, grid, start, end, enqueued, RequestVars>>

\* lines 32 and 50
ReturnNone ==
    /\ pc = "searching"
    /\ frame.pc = "while"
    /\ frame.queue = <<>>
    /\ frame' = FPWhile(frame)
    /\ UNCHANGED <<pc, grid, start, end, enqueued, popped, RequestVars>>

\* lines 36-49, one neighbour
Visit ==
    /\ pc = "searching"
    /\ frame.pc = "for"
    /\ frame' = FPFor(grid, end, frame)
    /\ enqueued' = IF Len(frame'.queue) > Len(frame.queue)
                   THEN Append(enqueued, Last(frame'.queue))
                   ELSE enqueued
    /\ UNCHANGED <<pc, grid, start, end, popped, RequestVars>>

NextPath == Enter \/ PopPath \/ ReturnNone \/ Visit

SpecPath == InitPath /\ [][NextPath]_vars

\* find_path runs in one thread without blocking: a step that can be taken is taken
FairSpecPath == SpecPath /\ WF_vars(NextPath)

----------------------------------------------------------------------------
(* get_ai_move, lines 59-112 *)

\* Python's a // b for b # 0: the floor of the quotient, for either sign of b
FloorDiv(a, b) == IF b > 0 THEN a \div b ELSE (-a) \div (-b)

\* line 76: [[0] * cols for _ in range(rows)]; a negative count gives an empty list
NewGrid(rows, cols) == [i \in 1..Max(rows, 0) |-> [j \in 1..Max(cols, 0) |-> 0]]

\* a Python list of length len accepts the index i (negative indices count from the end)
IndexOk(len, i) == -len <= i /\ i < len

\* the 1-based position the Python index i denotes
At(len, i) == IF i >= 0 THEN i + 1 ELSE len + i + 1

\* line 82: grid[r][c] = 1 raises IndexError unless both indices are accepted
WallOk(g, r, c) == IndexOk(Len(g), r) /\ IndexOk(Len(g[At(Len(g), r)]), c)

SetWall(g, r, c) ==
    LET i == At(Len(g), r)
    IN [g EXCEPT ![i][At(Len(g[i]), c)] = 1]

\* lines 97-101, 104-108, 89, 112: the four responses
Success(x, y) == [status |-> "success", next_x |-> x, next_y |-> y, code |-> 200]

NoMove(x, y) == [status |-> "no_move", next_x |-> x, next_y |-> y, code |-> 200]

MissingActor == [status |-> "error", message |-> "Player or AI not found", code |-> 400]

InternalError == [status |-> "error", message |-> "Internal server error", code |-> 500]

\* lines 94-108 with row and column exchanged in the success response
ReplySwapped(p, a, grid_size) ==
    IF p # None /\ Len(p) > 1
    THEN Success(p[2][1] * grid_size, p[2][2] * grid_size)
    ELSE NoMove(a[2] * grid_size, a[1] * grid_size)

\* lines 94-108: the response for the path find_path returned
Reply(p, a, grid_size) ==
    IF p # None /\ Len(p) > 1
    THEN Success(p[2][2] * grid_size, p[2][1] * grid_size)
    ELSE NoMove(a[2] * grid_size, a[1] * grid_size)

\* line 88: 'not player_pos or not ai_pos' (None is false, a 2-tuple is true)
ActorMissing(p, a) == p = None \/ a = None

\* lines 88-108: the response once every object has been iterated without an exception
Plan(g, p, a, grid_size) ==
    IF ActorMissing(p, a) THEN MissingActor
    ELSE Reply(find_path(g, a, p), a, grid_size)

\* lines 72-73
ColsOf(st) == FloorDiv(st.width, st.grid_size)

RowsOf(st) == FloorDiv(st.height, st.grid_size)

\* line 80
CellOf(obj, grid_size) == <<FloorDiv(obj.y, grid_size), FloorDiv(obj.x, grid_size)>>

\* the cell lies in [0,rows) x [0,cols)
InGrid(st, cell) ==
    /\ 0 <= cell[1] /\ cell[1] < RowsOf(st)
    /\ 0 <= cell[2] /\ cell[2] < ColsOf(st)

\* the request fields: non-positive values are included
Requests ==
    [width : (-1)..MaxWidth, height : (-1)..MaxHeight, grid_size : (-1)..MaxTile]

Types == {"wall", "enemy", "player", "ai_enemy", "goal"}

\* the elements of state['objects']: pixel positions are non-negative
Objects == [type : Types, x : 0..MaxWidth, y : 0..MaxHeight]

PathVars == <<start, end, frame, enqueued, popped>>

Init ==
    /\ state \in Requests
    /\ pc = "get_ai_move"
    /\ grid = <<>>
    /\ n = 0
    /\ player_pos = None
    /\ ai_pos = None
    /\ ai_obj = None
    /\ absent = NoAbsent
    /\ outside = FALSE
    /\ path = None
    /\ response = NoResponse
    /\ start = None
    /\ end = None
    /\ frame = NoFrame
    /\ enqueued = <<>>
    /\ popped = <<>>

\* lines 66-77; a zero grid_size raises ZeroDivisionError at line 72 (handled at 110-112)
ParseState ==
    /\ pc = "get_ai_move"
    /\ IF state.grid_size = 0
       THEN /\ response' = InternalError
            /\ pc' = "done"
            /\ UNCHANGED <<grid, absent>>
       ELSE /\ grid' = NewGrid(RowsOf(state), ColsOf(state))
            /\ absent' = [absent EXCEPT !.grid = NewGrid(RowsOf(state), ColsOf(state))]
            /\ pc' = "for"
            /\ UNCHANGED response
    /\ UNCHANGED <<state, n, player_pos, ai_pos, ai_obj, outside, path, PathVars>>

\* the same object applied to the request without its out-of-grid objects
AbsentAfter(obj, cell) ==
    IF ~InGrid(state, cell) THEN absent
    ELSE IF obj.type \in {"wall", "enemy"}
         THEN [absent EXCEPT !.grid = SetWall(absent.grid, cell[1], cell[2])]
    ELSE IF obj.type = "player" THEN [absent EXCEPT !.player_pos = cell]
    ELSE IF obj.type = "ai_enemy" THEN [absent EXCEPT !.ai_pos = cell]
    ELSE absent

\* lines 79-86, one object; IndexError at line 82 is handled at 110-112
ForObject ==
    /\ pc = "for"
    /\ n < MaxObjects
    /\ \E obj \in Objects :
        LET cell == CellOf(obj, state.grid_size)
            r == cell[1]
            c == cell[2]
        IN  /\ n' = n + 1
            /\ outside' = (outside \/ ~InGrid(state, cell))
            /\ absent' = AbsentAfter(obj, cell)
            /\ IF obj.type \in {"wall", "enemy"}
               THEN IF WallOk(grid, r, c)
                    THEN /\ grid' = SetWall(grid, r, c)
                         /\ UNCHANGED <<pc, player_pos, ai_pos, ai_obj, response>>
                    ELSE /\ response' = InternalError
                         /\ pc' = "done"
                         /\ UNCHANGED <<grid, player_pos, ai_pos, ai_obj>>
               ELSE IF obj.type = "player"
               THEN /\ player_pos' = cell
                    /\ UNCHANGED <<pc, grid, ai_pos, ai_obj, response>>
               ELSE IF obj.type = "ai_enemy"
               THEN /\ ai_pos' = cell
                    /\ ai_obj' = <<obj.x, obj.y>>
                    /\ UNCHANGED <<pc, grid, player_pos, response>>
               ELSE UNCHANGED <<pc, grid, player_pos, ai_pos, ai_obj, response>>
    /\ UNCHANGED <<state, path, PathVars>>

\* lines 88-89, after the last object
CheckActors ==
    /\ pc = "for"
    /\ IF ActorMissing(player_pos, ai_pos)
       THEN /\ response' = MissingActor
            /\ pc' = "done"
       ELSE /\ pc' = "plan"
            /\ UNCHANGED response
    /\ UNCHANGED <<grid, state, n, player_pos, ai_pos, ai_obj, absent, outside, path, PathVars>>

\* line 92
FindPath ==
    /\ pc = "plan"
    /\ path' = find_path(grid, ai_pos, player_pos)
    /\ pc' = "reply"
    /\ UNCHANGED <<grid, state, n, player_pos, ai_pos, ai_obj, absent, outside, response, PathVars>>

\* lines 94-108
SendReply ==
    /\ pc = "reply"
    /\ response' = Reply(path, ai_pos, state.grid_size)
    /\ pc' = "done"
    /\ UNCHANGED <<grid, state, n, player_pos, ai_pos, ai_obj, absent, outside, path, PathVars>>

Next == ParseState \/ ForObject \/ CheckActors \/ FindPath \/ SendReply

Spec == Init /\ [][Next]_vars

----------------------------------------------------------------------------
(* Reference notions on grids, independent of the search *)

Abs(x) == IF x < 0 THEN -x ELSE x

\* two cells differ by exactly one unit in exactly one axis
Adjacent(a, b) == Abs(a[1] - b[1]) + Abs(a[2] - b[2]) = 1

IsOpen(g, cell) == g[cell[1] + 1][cell[2] + 1] = 0

\* the cells one step away from a cell of S: a step enters an open cell of the grid
\* (the cell a route leaves from is given; the code never reads grid[start])
StepFrom(g, S) == {c \in CellsOf(g) : IsOpen(g, c) /\ \E s \in S : Adjacent(s, c)}

\* the number of steps of a shortest route from the cells of S to e, or -1 if there is none
RECURSIVE StepsTo(_, _, _, _)
StepsTo(g, S, e, d) ==
    IF e \in S THEN d
    ELSE LET T == S \cup StepFrom(g, S)
         IN IF T = S THEN -1 ELSE StepsTo(g, T, e, d + 1)

Distance(g, s, e) == StepsTo(g, {s}, e, 0)

\* every route of exactly d steps from s that is a prefix of a shortest route:
\* its i-th cell lies at distance i from s
RECURSIVE RoutesOfLength(_, _, _)
RoutesOfLength(g, s, d) ==
    IF d = 0 THEN {<<s>>}
    ELSE {Append(p, c) : p \in RoutesOfLength(g, s, d - 1),
                         c \in {x \in CellsOf(g) : /\ IsOpen(g, x)
                                                   /\ Distance(g, s, x) = d} } \cap
         {q \in Seq(CellsOf(g)) : Len(q) = d + 1 /\ Adjacent(q[d], q[d + 1])}

ShortestRoutes(g, s, e) ==
    {p \in RoutesOfLength(g, s, Distance(g, s, e)) : Last(p) = e}

\* the rank of the step from a to b in an exploration order (a sequence of (dr, dc))
Rank(order, a, b) ==
    CHOOSE i \in DOMAIN order : order[i] = <<b[1] - a[1], b[2] - a[2]>>

\* route p precedes route q of the same length: at the first step where they
\* differ, p takes the direction explored earlier
Precedes(order, p, q) ==
    \E i \in 1..(Len(p) - 1) :
        /\ \A j \in 1..i : p[j] = q[j]
        /\ Rank(order, p[i], p[i + 1]) < Rank(order, q[i], q[i + 1])

FirstShortest(order, g, s, e) ==
    CHOOSE p \in ShortestRoutes(g, s, e) :
        \A q \in ShortestRoutes(g, s, e) \ {p} : Precedes(order, p, q)

ColFirst == << <<0, 1>>, <<0, -1>>, <<1, 0>>, <<-1, 0>> >>

RowFirst == << <<1, 0>>, <<-1, 0>>, <<0, 1>>, <<0, -1>> >>

Returned == pc = "searching" /\ frame.pc = "return"

HasWall(g) == \E c \in CellsOf(g) : ~IsOpen(g, c)

----------------------------------------------------------------------------
(* Claims about find_path, under SpecPath *)

\* C1: when end # start is reachable from start through 4-adjacent open cells,
\* the returned path has (shortest graph distance + 1) cells.
C1_ShortestLength ==
    (Returned /\ start # end /\ Distance(grid, start, end) >= 0)
        => /\ frame.result # None
           /\ Len(frame.result) = Distance(grid, start, end) + 1

\* a detour around a wall: the shortest route is longer than the Manhattan distance
C1_Witness ==
    /\ Returned
    /\ HasWall(grid)
    /\ Distance(grid, start, end) > Abs(start[1] - end[1]) + Abs(start[2] - end[2])
    /\ Len(frame.result) = Distance(grid, start, end) + 1

\* C7: when no sequence of 4-adjacent open cells leads from start to end # start,
\* find_path ends with its queue empty and returns None, never a path.
C7_NoPath ==
    (Returned /\ start # end /\ Distance(grid, start, end) = -1)
        => /\ frame.result = None
           /\ frame.queue = <<>>

\* end is an open cell cut off by walls, and the search explored other cells first
C7_Witness ==
    /\ Returned
    /\ start # end
    /\ IsOpen(grid, end)
    /\ Distance(grid, start, end) = -1
    /\ Cardinality(frame.seen) > 2
    /\ frame.result = None

\* C8: every returned path (the single-cell path of start = end included) begins
\* with start, ends with end, steps between 4-adjacent cells and repeats no cell.
C8_SimplePath ==
    (Returned /\ frame.result # None)
        => LET p == frame.result
           IN /\ p[1] = start
              /\ Last(p) = end
              /\ \A i \in 1..(Len(p) - 1) : Adjacent(p[i], p[i + 1])
              /\ \A i, j \in DOMAIN p : i # j => p[i] # p[j]

C8_Witness ==
    /\ Returned
    /\ HasWall(grid)
    /\ Len(frame.result) >= 4

\* C9 (as amended): the returned path is a function of grid, start and end, and
\* among the shortest paths it is the one breadth-first search selects when it
\* explores each cell's neighbours in the order +col, -col, +row, -row.
C9_TieBreakColFirst ==
    (Returned /\ frame.result # None)
        => frame.result = FirstShortest(ColFirst, grid, start, end)

\* C9 (as claimed): the returned path is the one selected under the neighbour
\* order +row, -row, +col, -col.
C9_TieBreakRowFirst ==
    (Returned /\ frame.result # None)
        => frame.result = FirstShortest(RowFirst, grid, start, end)

\* several shortest paths exist and the two orders select different ones
C9_Witness ==
    /\ Returned
    /\ frame.result # None
    /\ Cardinality(ShortestRoutes(grid, start, end)) >= 2
    /\ FirstShortest(ColFirst, grid, start, end) # FirstShortest(RowFirst, grid, start, end)

\* C10, the state part: during a search, seen holds start and the last cell of
\* every path ever enqueued, no cell ends two enqueued paths, and paths are
\* dequeued in non-decreasing length.
C10_SearchInvariant ==
    (pc = "searching") =>
        /\ start \in frame.seen
        /\ \A i \in DOMAIN enqueued : Last(enqueued[i]) \in frame.seen
        /\ \A i, j \in DOMAIN enqueued :
               i # j => Last(enqueued[i]) # Last(enqueued[j])
        /\ \A i, j \in DOMAIN popped : i <= j => Len(popped[i]) <= Len(popped[j])

\* C10: the search invariant holds in every state and the search loop terminates.
C10_VisitedOnce == []C10_SearchInvariant /\ <>Returned

\* a search in which several paths of different lengths were dequeued
C10_Witness ==
    /\ pc = "searching"
    /\ Len(popped) >= 3
    /\ Len(popped[1]) < Len(Last(popped))
    /\ Len(enqueued) >= 4

----------------------------------------------------------------------------
(* Claims about get_ai_move, under Spec *)

Done == pc = "done"

\* width, height and grid_size are all positive
WellFormed(st) == st.width > 0 /\ st.height > 0 /\ st.grid_size > 0

\* the scenario request: a 256 x 192 world of 32-pixel tiles without obstacles,
\* the pursuer at cell (5,5) and the target at cell (5,7)
ScenarioState == [width |-> 256, height |-> 192, grid_size |-> 32]

ScenarioReply ==
    Plan(NewGrid(RowsOf(ScenarioState), ColsOf(ScenarioState)),
         CellOf([type |-> "player", x |-> 224, y |-> 160], 32),
         CellOf([type |-> "ai_enemy", x |-> 160, y |-> 160], 32),
         32)

\* C2: whenever find_path returned a path of more than one cell, the response is
\* the success response with next_x = col * grid_size and next_y = row * grid_size
\* of the path's second cell; the scenario request is answered (192, 160).
C2_NextStep ==
    /\ (Done /\ Len(path) > 1) =>
           response = Success(path[2][2] * state.grid_size, path[2][1] * state.grid_size)
    /\ ScenarioReply = Success(192, 160)

\* a path of three cells was found and its second cell has different row and column
C2_Witness ==
    /\ Done
    /\ Len(path) >= 3
    /\ path[2][1] # path[2][2]
    /\ response.status = "success"

\* C3 (as claimed): whenever both actors are present and find_path returned the
\* single-cell path or no path, the response is the hold response (neither success
\* nor error) and reports the pursuer object's own input pixel position (x, y).
\* Stated for well-formed requests whose objects all lie inside the grid.
C3_HoldReportsInput ==
    (Done /\ WellFormed(state) /\ ~outside /\ player_pos # None /\ ai_pos # None
          /\ response.code = 200 /\ Len(path) <= 1)
        => /\ response.status = "no_move"
           /\ response.next_x = ai_obj[1]
           /\ response.next_y = ai_obj[2]

\* C4 (as claimed): a well-formed request without an ai_enemy object or without a
\* player object is answered with the missing-actor failure; one with both never is.
C4_MissingActor ==
    (Done /\ WellFormed(state))
        => IF player_pos = None \/ ai_pos = None
           THEN response = MissingActor
           ELSE response # MissingActor

\* C5 (as claimed): an object whose cell lies outside [0,rows) x [0,cols) is
\* skipped: it blocks no cell, raises no failure, and the response is the one
\* the request gets without that object.
C5_OutsideSkipped ==
    (Done /\ WellFormed(state) /\ outside)
        => /\ response # InternalError
           /\ grid = absent.grid
           /\ response = Plan(absent.grid, absent.player_pos, absent.ai_pos, state.grid_size)

\* C6 (as claimed): a request whose grid_size, width or height is not positive
\* ends in a failure (the malformed-input failure, decided before any object is
\* processed) and never in success or hold. Either failure response of the code
\* is accepted here as that failure, so a violation is a success or hold response.
C6_Malformed ==
    (Done /\ ~WellFormed(state))
        => response.status = "error"

====
